---- MODULE Spec2Model ----
(***************************************************************************)
(* Kinematic simulation and tile collision of the platformer:              *)
(* src/game/level.rs (Level) and src/game/entities/player.rs (Player).     *)
(*                                                                         *)
(* Number representation.  The program computes in f32.  The model uses    *)
(* fixed point: a step duration dt is a whole number of ticks of 1/DtDen   *)
(* second, a velocity is a whole number of 1/VelScale units per second and *)
(* a position a whole number of 1/PosScale units.  For dt = k/16 every     *)
(* product and sum the code forms (ACCELERATION*dt, velocity*dt, x + ...)  *)
(* is a multiple of 1/64 below 2^17, which f32 represents exactly, so the  *)
(* fixed-point values are the f32 values.  The one exception is the        *)
(* diagonal normalisation of update_top_down (a square root), see there.   *)
(***************************************************************************)
EXTENDS Integers, Sequences, FiniteSets

VARIABLES player, world, op, obs

vars == <<player, world, op, obs>>

\* ------------------------------------------------------------------------
\* Fixed-point resolution (see the header).
DtDen == 16
VelScale == 4
PosScale == VelScale * DtDen

\* Bounds of the model.
MaxDt == 2          \* a step lasts 1..MaxDt ticks of 1/DtDen second
MaxFallSpeed == 800 \* |velocity_y| (units/s) beyond which no further step is taken

\* player.rs constants.
ACCELERATION == 1000
MAX_VELOCITY == 500
FRICTION == 800
JUMP_VELOCITY == 500
GRAVITY == 1500
TILE_SIZE == 32

PLAYER_WIDTH == 24
PLAYER_HEIGHT == 48

ANIMATION_FRAMES == 4

\* a velocity constant (units/s) in fixed point
Vel(v) == v * VelScale
\* a length (units) in fixed point
Pos(u) == u * PosScale
\* rate * dt, for an acceleration in units/s^2 and dt in ticks: a velocity
PerStep(rate, dt) == (rate * VelScale * dt) \div DtDen
\* velocity * dt: a displacement
Displace(v, dt) == (v * dt * PosScale) \div (VelScale * DtDen)

\* ------------------------------------------------------------------------
\* level.rs

\* Statements in sequence.  Only({e(x) : x \in {v}}) is e(v) with v computed
\* once, as a local the code assigns and then reads.
Only(S) == CHOOSE r \in S : TRUE

\* Platform alone stops the actor
SolidPlatform == {"Platform"}

\* Evidence stops the actor as well
SolidEvidence == {"Platform", "Wall", "Evidence"}

Solid == {"Platform", "Wall"}

Level_new(width, height, perspective) ==
    [width |-> width,
     height |-> height,
     tiles |-> [i \in 1..(width * height) |-> "Empty"],
     perspective |-> perspective,
     spawn_point |-> <<0, 0>>,
     evidence_locations |-> <<>>]

\* a lookup that tests the flat index in place of the two coordinates
get_tileFlat(lv, x, y) ==
    IF y * lv.width + x < lv.width * lv.height
    THEN lv.tiles[y * lv.width + x + 1]
    ELSE "None"

\* Option<&TileType>: "None" for an out-of-range coordinate
get_tile(lv, x, y) ==
    IF x < lv.width /\ y < lv.height
    THEN lv.tiles[y * lv.width + x + 1]
    ELSE "None"

\* a store that tests the flat index in place of the two coordinates
set_tileFlat(lv, x, y, tile_type) ==
    IF y * lv.width + x < lv.width * lv.height
    THEN [lv EXCEPT !.tiles[y * lv.width + x + 1] = tile_type]
    ELSE lv

set_tile(lv, x, y, tile_type) ==
    IF x < lv.width /\ y < lv.height
    THEN [lv EXCEPT !.tiles[y * lv.width + x + 1] = tile_type]
    ELSE lv

set_spawn_point(lv, x, y) == [lv EXCEPT !.spawn_point = <<x, y>>]

add_evidence(lv, x, y) ==
    set_tile([lv EXCEPT !.evidence_locations = Append(@, <<x, y>>)],
             x, y, "Evidence")

\* Text is a sequence of lines, a line a sequence of one-character strings
\* (the text is the lines joined by "\n").
Whitespace == {" ", "\t"}

RECURSIVE StripLeft(_)
StripLeft(line) ==
    IF line # <<>> /\ Head(line) \in Whitespace
    THEN StripLeft(Tail(line))
    ELSE line

RECURSIVE StripRight(_)
StripRight(line) ==
    IF line # <<>> /\ line[Len(line)] \in Whitespace
    THEN StripRight(SubSeq(line, 1, Len(line) - 1))
    ELSE line

\* str::trim over the joined text: leading blank lines go (a line break is
\* white space), then the leading blanks of the first line left
RECURSIVE TrimStart(_)
TrimStart(lines) ==
    IF lines = <<>> THEN <<>>
    ELSE LET first == StripLeft(Head(lines))
         IN IF first = <<>> THEN TrimStart(Tail(lines))
            ELSE <<first>> \o Tail(lines)

RECURSIVE TrimEnd(_)
TrimEnd(lines) ==
    IF lines = <<>> THEN <<>>
    ELSE LET n == Len(lines)
             last == StripRight(lines[n])
         IN IF last = <<>> THEN TrimEnd(SubSeq(lines, 1, n - 1))
            ELSE SubSeq(lines, 1, n - 1) \o <<last>>

Trim(lines) == TrimEnd(TrimStart(lines))

\* one arm of the match in from_string
LoadChar(lv, c, x, y) ==
    CASE c = "#" -> set_tile(lv, x, y, "Platform")
      [] c = "W" -> set_tile(lv, x, y, "Wall")
      [] c = "E" -> add_evidence(lv, x, y)
      [] c = "S" -> set_tile(set_spawn_point(lv, Pos(x * 32), Pos(y * 32)),
                             x, y, "Empty")
      [] OTHER -> set_tile(lv, x, y, "Empty")

RECURSIVE LoadLine(_, _, _, _)
LoadLine(lv, line, x, y) ==
    IF x >= Len(line) THEN lv
    ELSE Only({LoadLine(next, line, x + 1, y) :
                 next \in {LoadChar(lv, line[x + 1], x, y)}})

RECURSIVE LoadLines(_, _, _)
LoadLines(lv, lines, y) ==
    IF y >= Len(lines) THEN lv
    ELSE Only({LoadLines(next, lines, y + 1) :
                 next \in {LoadLine(lv, lines[y + 1], 0, y)}})

\* lines[0] of a text without lines: index out of bounds
Panics(data) == Trim(data) = <<>>

\* Level::from_string; "panic" when lines[0] does not exist
from_string(data, perspective) ==
    LET lines == Trim(data)
    IN IF lines = <<>> THEN "panic"
       ELSE LoadLines(Level_new(Len(lines[1]), Len(lines), perspective),
                      lines, 0)

\* World: the levels by name (a HashMap) and the name of the current one
World_new == [levels |-> [n \in {} |-> n], current_level |-> ""]

add_level(w, name, lv) ==
    [levels |-> [n \in DOMAIN w.levels \cup {name} |->
                    IF n = name THEN lv ELSE w.levels[n]],
     current_level |-> IF w.current_level = "" THEN name ELSE w.current_level]

\* a switch that makes any name current, registered or not
switch_levelAny(w, name) ==
    [world |-> [w EXCEPT !.current_level = name], result |-> TRUE]

\* a switch that reports success and keeps the current level
switch_levelStay(w, name) == [world |-> w, result |-> TRUE]

\* World::switch_level: the world after the call and the bool it returns
switch_level(w, name) ==
    IF name \in DOMAIN w.levels
    THEN [world |-> [w EXCEPT !.current_level = name], result |-> TRUE]
    ELSE [world |-> w, result |-> FALSE]

\* World::current_level is Some
HasLevel(w) == w.current_level \in DOMAIN w.levels

\* World::current_level, where it is Some
current_level(w) == w.levels[w.current_level]

\* World::current_level_mut, where it is Some: the level replaced by lv
current_level_mut(w, lv) == [w EXCEPT !.levels[w.current_level] = lv]

\* ------------------------------------------------------------------------
\* player.rs

Digit == <<"0", "1", "2", "3", "4", "5", "6", "7", "8", "9">>

\* Display of a usize
RECURSIVE ToString(_)
ToString(n) ==
    IF n < 10 THEN Digit[n + 1]
    ELSE ToString(n \div 10) \o Digit[(n % 10) + 1]

\* format!("evidence_{}_{}", x, y)
EvidenceId(x, y) == "evidence_" \o ToString(x) \o "_" \o ToString(y)

Contains(seq, e) == \E i \in 1..Len(seq) : seq[i] = e

Player_new(x, y) ==
    [x |-> x,
     y |-> y,
     velocity_x |-> 0,
     velocity_y |-> 0,
     moving_left |-> FALSE,
     moving_right |-> FALSE,
     moving_up |-> FALSE,
     moving_down |-> FALSE,
     is_jumping |-> FALSE,
     is_grounded |-> TRUE,
     width |-> Pos(PLAYER_WIDTH),
     height |-> Pos(PLAYER_HEIGHT),
     facing_right |-> TRUE,
     animation_frame |-> 0,
     animation_timer |-> 0,
     evidence_collected |-> <<>>]

move_left(p, pressed) ==
    [p EXCEPT !.moving_left = pressed,
              !.facing_right = IF pressed THEN FALSE ELSE @]

move_right(p, pressed) ==
    [p EXCEPT !.moving_right = pressed,
              !.facing_right = IF pressed THEN TRUE ELSE @]

move_up(p, pressed) == [p EXCEPT !.moving_up = pressed]

move_down(p, pressed) == [p EXCEPT !.moving_down = pressed]

\* jump without the is_grounded test
jumpInAir(p) ==
    [p EXCEPT !.velocity_y = -Vel(JUMP_VELOCITY),
              !.is_jumping = TRUE,
              !.is_grounded = FALSE]

\* a jump that leaves the actor grounded
jumpGrounded(p) ==
    IF p.is_grounded
    THEN [p EXCEPT !.velocity_y = -Vel(JUMP_VELOCITY),
                   !.is_jumping = TRUE]
    ELSE p

jump(p) ==
    IF p.is_grounded
    THEN [p EXCEPT !.velocity_y = -Vel(JUMP_VELOCITY),
                   !.is_jumping = TRUE,
                   !.is_grounded = FALSE]
    ELSE p

\* (v / TILE_SIZE).floor() as usize: the cast saturates at 0
TileCoord(v) ==
    LET q == v \div Pos(TILE_SIZE)
    IN IF q < 0 THEN 0 ELSE q

\* x as f32 * TILE_SIZE
TileEdge(x) == Pos(x * TILE_SIZE)

\* the bounding box of the player and its tile footprint
Box(p) ==
    [left |-> p.x - p.width \div 2,
     right |-> p.x + p.width \div 2,
     top |-> p.y - p.height \div 2,
     bottom |-> p.y + p.height \div 2]

\* a footprint that starts at the first row and column of the grid
FootprintFromOrigin(p) ==
    [tile_left |-> 0,
     tile_right |-> TileCoord(Box(p).right),
     tile_top |-> 0,
     tile_bottom |-> TileCoord(Box(p).bottom)]

Footprint(p) ==
    [tile_left |-> TileCoord(Box(p).left),
     tile_right |-> TileCoord(Box(p).right),
     tile_top |-> TileCoord(Box(p).top),
     tile_bottom |-> TileCoord(Box(p).bottom)]

\* for y in tile_top..=tile_bottom { for x in tile_left..=tile_right {..} }:
\* the tiles <<x, y>> in the order the loops visit them
ScanOrder(f) ==
    LET cols == f.tile_right - f.tile_left + 1
        rows == f.tile_bottom - f.tile_top + 1
    IN IF cols <= 0 \/ rows <= 0 THEN <<>>
       ELSE [i \in 1..(cols * rows) |->
                <<f.tile_left + ((i - 1) % cols),
                  f.tile_top + ((i - 1) \div cols)>>]

\* a horizontal contact that corrects the position and keeps the velocity
HitXKeepMoving(st, lv, box, x, y) ==
    IF get_tile(lv, x, y) \in Solid
    THEN IF st.p.velocity_x > 0 /\ box.right > TileEdge(x)
         THEN [p |-> [st.p EXCEPT !.x = TileEdge(x) - st.p.width \div 2],
               collision |-> TRUE]
         ELSE IF st.p.velocity_x < 0 /\ box.left < TileEdge(x + 1)
         THEN [p |-> [st.p EXCEPT !.x = TileEdge(x + 1) + st.p.width \div 2],
               collision |-> TRUE]
         ELSE st
    ELSE st

\* body of the horizontal loop for one tile; st = [p, collision]
HitX(st, lv, box, x, y) ==
    IF get_tile(lv, x, y) \in Solid
    THEN IF st.p.velocity_x > 0 /\ box.right > TileEdge(x)
         THEN [p |-> [st.p EXCEPT !.x = TileEdge(x) - st.p.width \div 2,
                                  !.velocity_x = 0],
               collision |-> TRUE]
         ELSE IF st.p.velocity_x < 0 /\ box.left < TileEdge(x + 1)
         THEN [p |-> [st.p EXCEPT !.x = TileEdge(x + 1) + st.p.width \div 2,
                                  !.velocity_x = 0],
               collision |-> TRUE]
         ELSE st
    ELSE st

\* the loop over cells[lo..hi] in order: the first half of the range, then
\* the second half from the state the first half left
RECURSIVE ScanX(_, _, _, _, _, _)
ScanX(st, lv, box, cells, lo, hi) ==
    IF lo > hi THEN st
    ELSE IF lo = hi THEN HitX(st, lv, box, cells[lo][1], cells[lo][2])
    ELSE Only({ScanX(next, lv, box, cells, (lo + hi) \div 2 + 1, hi) :
                 next \in {ScanX(st, lv, box, cells, lo, (lo + hi) \div 2)}})

\* a landing that keeps the downward velocity
HitYFalling(st, lv, box, x, y) ==
    IF get_tile(lv, x, y) \in Solid /\ st.p.velocity_y > 0 /\ box.bottom > TileEdge(y)
    THEN [p |-> [st.p EXCEPT !.y = TileEdge(y) - st.p.height \div 2,
                             !.is_grounded = TRUE,
                             !.is_jumping = FALSE],
          collision |-> TRUE]
    ELSE st

\* body of the vertical loop for one tile
HitY(st, lv, box, x, y) ==
    IF get_tile(lv, x, y) \in Solid
    THEN IF st.p.velocity_y > 0 /\ box.bottom > TileEdge(y)
         THEN [p |-> [st.p EXCEPT !.y = TileEdge(y) - st.p.height \div 2,
                                  !.velocity_y = 0,
                                  !.is_grounded = TRUE,
                                  !.is_jumping = FALSE],
               collision |-> TRUE]
         ELSE IF st.p.velocity_y < 0 /\ box.top < TileEdge(y + 1)
         THEN [p |-> [st.p EXCEPT !.y = TileEdge(y + 1) + st.p.height \div 2,
                                  !.velocity_y = 0],
               collision |-> TRUE]
         ELSE st
    ELSE st

RECURSIVE ScanY(_, _, _, _, _, _)
ScanY(st, lv, box, cells, lo, hi) ==
    IF lo > hi THEN st
    ELSE IF lo = hi THEN HitY(st, lv, box, cells[lo][1], cells[lo][2])
    ELSE Only({ScanY(next, lv, box, cells, (lo + hi) \div 2 + 1, hi) :
                 next \in {ScanY(st, lv, box, cells, lo, (lo + hi) \div 2)}})

\* the horizontal loop over the footprint of p
ScanXFrom(p, lv) ==
    Only({ScanX([p |-> p, collision |-> FALSE], lv, box, cells, 1, Len(cells)) :
             box \in {Box(p)}, cells \in {ScanOrder(Footprint(p))}})

\* the vertical loop over the footprint of p, is_grounded cleared first
ScanYFrom(p, lv) ==
    Only({ScanY([p |-> [p EXCEPT !.is_grounded = FALSE], collision |-> FALSE],
                lv, box, cells, 1, Len(cells)) :
             box \in {Box(p)}, cells \in {ScanOrder(Footprint(p))}})

\* the horizontal pass without its restore
HorizontalPassKeep(p, lv, original_x) == ScanXFrom(p, lv)

\* the horizontal pass with its restore: [p, collision]
HorizontalPass(p, lv, original_x) ==
    Only({IF st.collision THEN st ELSE [st EXCEPT !.p.x = original_x] :
             st \in {ScanXFrom(p, lv)}})

\* the vertical pass with its restore: [p, collision]
VerticalPass(p, lv, original_y) ==
    Only({IF st.collision THEN st ELSE [st EXCEPT !.p.y = original_y] :
             st \in {ScanYFrom(p, lv)}})

\* no boundary on x
ClampXOff(p, lv) == p

\* "Handle level boundaries"
ClampX(p, lv) ==
    IF p.x < p.width \div 2
    THEN [p EXCEPT !.x = p.width \div 2, !.velocity_x = 0]
    ELSE IF p.x > TileEdge(lv.width) - p.width \div 2
    THEN [p EXCEPT !.x = TileEdge(lv.width) - p.width \div 2,
                   !.velocity_x = 0]
    ELSE p

ClampY(p, lv) ==
    IF p.y < p.height \div 2
    THEN [p EXCEPT !.y = p.height \div 2, !.velocity_y = 0]
    ELSE IF p.y > TileEdge(lv.height) - p.height \div 2
    THEN [p EXCEPT !.y = TileEdge(lv.height) - p.height \div 2,
                   !.velocity_y = 0,
                   !.is_grounded = TRUE,
                   !.is_jumping = FALSE]
    ELSE p

handle_collisions(p, lv, original_x, original_y) ==
    Only({Only({Only({ClampY(c, lv) : c \in {ClampX(v.p, lv)}}) :
                  v \in {VerticalPass(h.p, lv, original_y)}}) :
             h \in {HorizontalPass(p, lv, original_x)}})

\* "Apply horizontal movement based on input"
Accelerate(p, dt) ==
    [p EXCEPT !.velocity_x =
        (IF p.moving_left THEN @ - PerStep(ACCELERATION, dt) ELSE @)
        + (IF p.moving_right THEN PerStep(ACCELERATION, dt) ELSE 0)]

\* friction that does not stop at 0
ApplyFrictionOvershoot(p, dt) ==
    IF ~p.moving_left /\ ~p.moving_right /\ p.is_grounded
    THEN IF p.velocity_x > 0
         THEN [p EXCEPT !.velocity_x = @ - PerStep(FRICTION, dt)]
         ELSE IF p.velocity_x < 0
         THEN [p EXCEPT !.velocity_x = @ + PerStep(FRICTION, dt)]
         ELSE p
    ELSE p

\* friction of update_side_scrolling
ApplyFriction(p, dt) ==
    IF ~p.moving_left /\ ~p.moving_right /\ p.is_grounded
    THEN IF p.velocity_x > 0
         THEN LET v == p.velocity_x - PerStep(FRICTION, dt)
              IN [p EXCEPT !.velocity_x = IF v < 0 THEN 0 ELSE v]
         ELSE IF p.velocity_x < 0
         THEN LET v == p.velocity_x + PerStep(FRICTION, dt)
              IN [p EXCEPT !.velocity_x = IF v > 0 THEN 0 ELSE v]
         ELSE p
    ELSE p

\* no cap
CapVelocityOff(p) == p

\* "Cap horizontal velocity"
CapVelocity(p) ==
    IF p.velocity_x > Vel(MAX_VELOCITY)
    THEN [p EXCEPT !.velocity_x = Vel(MAX_VELOCITY)]
    ELSE IF p.velocity_x < -Vel(MAX_VELOCITY)
    THEN [p EXCEPT !.velocity_x = -Vel(MAX_VELOCITY)]
    ELSE p

\* "Apply gravity"
ApplyGravity(p, dt) ==
    IF ~p.is_grounded
    THEN [p EXCEPT !.velocity_y = @ + PerStep(GRAVITY, dt)]
    ELSE p

\* update_side_scrolling up to the call of handle_collisions
IntegrateSideScrolling(p, dt) ==
    Only({[c EXCEPT !.x = @ + Displace(c.velocity_x, dt),
                    !.y = @ + Displace(c.velocity_y, dt)] :
             c \in {CapVelocity(ApplyGravity(ApplyFriction(Accelerate(p, dt), dt), dt))}})

update_side_scrolling(p, dt, lv) ==
    Only({handle_collisions(moved, lv, p.x, p.y) :
             moved \in {IntegrateSideScrolling(p, dt)}})

\* integer square root by bisection, for the magnitude of the diagonal
RECURSIVE SqrtFrom(_, _, _)
SqrtFrom(n, lo, hi) ==
    IF lo >= hi THEN lo
    ELSE LET mid == (lo + hi + 1) \div 2
         IN IF mid * mid <= n
            THEN SqrtFrom(n, mid, hi)
            ELSE SqrtFrom(n, lo, mid - 1)

\* (dx, dy) without the normalisation of the diagonal
TopDownVelocityRaw(p) ==
    [dx |-> (IF p.moving_left THEN -Vel(MAX_VELOCITY) ELSE 0)
            + (IF p.moving_right THEN Vel(MAX_VELOCITY) ELSE 0),
     dy |-> (IF p.moving_up THEN -Vel(MAX_VELOCITY) ELSE 0)
            + (IF p.moving_down THEN Vel(MAX_VELOCITY) ELSE 0)]

\* (dx, dy) of update_top_down.  The diagonal is normalised in f32 with a
\* square root; the model rounds the magnitude and the quotient toward zero
\* at the fixed-point resolution.
TopDownVelocity(p) ==
    LET dx == (IF p.moving_left THEN -Vel(MAX_VELOCITY) ELSE 0)
              + (IF p.moving_right THEN Vel(MAX_VELOCITY) ELSE 0)
        dy == (IF p.moving_up THEN -Vel(MAX_VELOCITY) ELSE 0)
              + (IF p.moving_down THEN Vel(MAX_VELOCITY) ELSE 0)
        magnitude == SqrtFrom(dx * dx + dy * dy, 0, 2 * Vel(MAX_VELOCITY))
        Norm(d) == IF d < 0 THEN -((-d * Vel(MAX_VELOCITY)) \div magnitude)
                   ELSE (d * Vel(MAX_VELOCITY)) \div magnitude
    IN IF dx # 0 /\ dy # 0
       THEN [dx |-> Norm(dx), dy |-> Norm(dy)]
       ELSE [dx |-> dx, dy |-> dy]

\* update_top_down with the facing taken from any intent flag
IntegrateTopDownTurning(p, dt) ==
    Only({[p EXCEPT !.facing_right = IF p.moving_right \/ p.moving_up THEN TRUE
                                     ELSE IF p.moving_left \/ p.moving_down
                                          THEN FALSE ELSE @,
                    !.x = @ + Displace(d.dx, dt),
                    !.y = @ + Displace(d.dy, dt)] :
             d \in {TopDownVelocity(p)}})

\* update_top_down up to the call of handle_collisions
IntegrateTopDown(p, dt) ==
    Only({[p EXCEPT !.facing_right = IF p.moving_right THEN TRUE
                                     ELSE IF p.moving_left THEN FALSE ELSE @,
                    !.x = @ + Displace(d.dx, dt),
                    !.y = @ + Displace(d.dy, dt)] :
             d \in {TopDownVelocity(p)}})

update_top_down(p, dt, lv) ==
    Only({handle_collisions(moved, lv, p.x, p.y) :
             moved \in {IntegrateTopDown(p, dt)}})

\* "Update animation": the timer exceeds 0.1 s
Animate(p, dt) ==
    LET t == p.animation_timer + dt
    IN IF t * 10 > DtDen
       THEN [p EXCEPT !.animation_timer = 0,
                      !.animation_frame = (@ + 1) % ANIMATION_FRAMES]
       ELSE [p EXCEPT !.animation_timer = t]

\* body of the evidence loop keeping the latest identifier alone
CollectLatest(p, lv, x, y) ==
    IF get_tile(lv, x, y) = "Evidence"
       /\ ~Contains(p.evidence_collected, EvidenceId(x, y))
    THEN [p EXCEPT !.evidence_collected = <<EvidenceId(x, y)>>]
    ELSE p

\* body of the evidence loop without the contains test
CollectAgain(p, lv, x, y) ==
    IF get_tile(lv, x, y) = "Evidence"
    THEN [p EXCEPT !.evidence_collected = Append(@, EvidenceId(x, y))]
    ELSE p

\* body of the evidence loop for one tile
Collect(p, lv, x, y) ==
    IF get_tile(lv, x, y) = "Evidence"
       /\ ~Contains(p.evidence_collected, EvidenceId(x, y))
    THEN [p EXCEPT !.evidence_collected = Append(@, EvidenceId(x, y))]
    ELSE p

RECURSIVE ScanEvidence(_, _, _, _, _)
ScanEvidence(p, lv, cells, lo, hi) ==
    IF lo > hi THEN p
    ELSE IF lo = hi THEN Collect(p, lv, cells[lo][1], cells[lo][2])
    ELSE Only({ScanEvidence(next, lv, cells, (lo + hi) \div 2 + 1, hi) :
                 next \in {ScanEvidence(p, lv, cells, lo, (lo + hi) \div 2)}})

check_evidence_collection(p, lv) ==
    Only({ScanEvidence(p, lv, cells, 1, Len(cells)) :
             cells \in {ScanOrder(Footprint(p))}})

Integrate(p, dt, lv) ==
    IF lv.perspective = "SideScrolling"
    THEN IntegrateSideScrolling(p, dt)
    ELSE IntegrateTopDown(p, dt)

\* the match on level.perspective
Moved(p, dt, lv) ==
    IF lv.perspective = "SideScrolling"
    THEN update_side_scrolling(p, dt, lv)
    ELSE update_top_down(p, dt, lv)

update(p, dt, lv) ==
    Only({check_evidence_collection(timed, lv) :
             timed \in {Animate(Moved(p, dt, lv), dt)}})

\* ------------------------------------------------------------------------
\* Levels of the model, each loaded by from_string from its text.

\* ("." is a character from_string maps to Empty that trim leaves alone)

\* the wall scenario: "###", "#S#", "###"
WallText ==
    << <<"#", "#", "#">>,
       <<"#", "S", "#">>,
       <<"#", "#", "#">> >>

\* open space: no solid tile
OpenText ==
    << <<".", " ", " ">>,
       <<" ", " ", "S">>,
       <<" ", " ", ".">> >>

\* one solid tile below and left of the spawn
LedgeText ==
    << <<".", " ", " ", " ">>,
       <<" ", "S", " ", " ">>,
       <<"#", " ", " ", ".">> >>

\* one solid tile right of the spawn
PostText ==
    << <<".", " ", " ">>,
       <<" ", "S", "W">>,
       <<" ", " ", ".">> >>

\* a floor, a block left of the spawn, evidence at the spawn's right
FloorText ==
    << <<".", " ", " ">>,
       <<"#", "S", "E">>,
       <<"#", "#", "#">> >>

\* a floor of both solid kinds and a Wall left of the spawn
MixedText ==
    << <<".", " ", " ">>,
       <<"W", "S", " ">>,
       <<"#", "W", "#">> >>

\* a solid tile at (0,0), inside the footprint of an actor at the spawn point
CourtText ==
    << <<"#", " ", " ">>,
       <<" ", "S", " ">>,
       <<" ", " ", ".">> >>

\* one Evidence tile at (2,2)
TriggerText ==
    << <<"S", " ", " ", " ">>,
       <<" ", " ", " ", " ">>,
       <<" ", " ", "E", " ">>,
       <<" ", " ", " ", ".">> >>

\* one solid tile in the middle of open space, no spawn mark
SoloText ==
    << <<".", " ", " ", " ", " ", " ", " ">>,
       <<" ", " ", " ", " ", " ", " ", " ">>,
       <<" ", " ", " ", " ", " ", " ", " ">>,
       <<" ", " ", " ", "W", " ", " ", " ">>,
       <<" ", " ", " ", " ", " ", " ", " ">>,
       <<" ", " ", " ", " ", " ", " ", " ">>,
       <<" ", " ", " ", " ", " ", " ", ".">> >>

WallLevel == from_string(WallText, "SideScrolling")
SoloLevel == from_string(SoloText, "SideScrolling")
OpenLevel == from_string(OpenText, "SideScrolling")
LedgeLevel == from_string(LedgeText, "SideScrolling")
PostLevel == from_string(PostText, "SideScrolling")
FloorLevel == from_string(FloorText, "SideScrolling")
MixedLevel == from_string(MixedText, "SideScrolling")
TriggerLevel == from_string(TriggerText, "TopDown")
CourtLevel == from_string(CourtText, "TopDown")

\* the two registered levels, cut down to 3 x 3: both hold Evidence at (1,0),
\* inside the footprint of an actor standing at either spawn point; (0,0) is
\* Evidence in the first level alone and is scanned before (1,0)
TestLevelText ==
    << <<"E", "E", ".">>,
       <<" ", "S", " ">>,
       <<"#", "#", "#">> >>

TopDownLevelText ==
    << <<".", "E", ".">>,
       <<" ", " ", "S">>,
       <<" ", " ", ".">> >>

TestLevel == from_string(TestLevelText, "SideScrolling")
TopDownLevel == from_string(TopDownLevelText, "TopDown")

\* ------------------------------------------------------------------------
\* The state machine: one Player stepped against one Level.
\*   op   the operation that produced the state
\*   obs  what that operation observed on its way (locals of the code)

NoObs ==
    [dt |-> 0, collision_x |-> FALSE, collision_y |-> FALSE,
     landed |-> FALSE, collected |-> 0, ignored |-> FALSE]

DtRange == 1..MaxDt

\* the level that handle_event and update read
level == current_level(world)

\* PlayingState::new: the player is placed at the level's spawn point
InitOn(levels) ==
    /\ world \in {add_level(World_new, "test_level", lv) : lv \in levels}
    /\ player = Player_new(level.spawn_point[1], level.spawn_point[2])
    /\ op = "new"
    /\ obs = NoObs

\* a player placed in the level with a velocity: the fields are public
Placed(x, y, vx, vy, held) ==
    [Player_new(Pos(x), Pos(y)) EXCEPT
        !.velocity_x = Vel(vx),
        !.velocity_y = Vel(vy),
        !.moving_right = held /\ vx > 0,
        !.moving_left = held /\ vx < 0,
        !.is_grounded = (vy = 0)]

PlacedSpeeds == {-MAX_VELOCITY, -250, -125, -50, 50, 125, 250, MAX_VELOCITY}

\* positions beside the tile at (3,3), on its row, and above or below it,
\* on its column
PlacedBeside == {12 + 8 * k : k \in 0..9} \cup {140 + 8 * k : k \in 0..9}
PlacedAbove == {24 + 8 * k : k \in 0..6} \cup {152 + 8 * k : k \in 0..6}

InitPlaced ==
    /\ world = add_level(World_new, "test_level", SoloLevel)
    /\ \/ \E x \in PlacedBeside, vx \in PlacedSpeeds, held \in BOOLEAN :
            player = Placed(x, 3 * TILE_SIZE + 16, vx, 0, held)
       \/ \E y \in PlacedAbove, vy \in PlacedSpeeds :
            player = Placed(3 * TILE_SIZE + 16, y, 0, vy, FALSE)
    /\ op = "new"
    /\ obs = NoObs

MoveLeft ==
    \E pressed \in BOOLEAN :
        /\ player' = move_left(player, pressed)
        /\ op' = "move_left"
        /\ obs' = NoObs
        /\ UNCHANGED world

MoveRight ==
    \E pressed \in BOOLEAN :
        /\ player' = move_right(player, pressed)
        /\ op' = "move_right"
        /\ obs' = NoObs
        /\ UNCHANGED world

MoveUp ==
    \E pressed \in BOOLEAN :
        /\ player' = move_up(player, pressed)
        /\ op' = "move_up"
        /\ obs' = NoObs
        /\ UNCHANGED world

MoveDown ==
    \E pressed \in BOOLEAN :
        /\ player' = move_down(player, pressed)
        /\ op' = "move_down"
        /\ obs' = NoObs
        /\ UNCHANGED world

Jump ==
    /\ player' = jump(player)
    /\ op' = "jump"
    /\ obs' = [NoObs EXCEPT !.ignored = ~player.is_grounded]
    /\ UNCHANGED world

\* the Tab arm of handle_event: switch to the other registered level, then
\* put the actor on the spawn point of the level that is current afterwards
Tab ==
    \E t \in {switch_level(world, IF world.current_level = "test_level"
                                  THEN "topdown_level"
                                  ELSE "test_level")} :
        /\ world' = t.world
        /\ player' = IF HasLevel(t.world)
                      THEN [player EXCEPT
                              !.x = current_level(t.world).spawn_point[1],
                              !.y = current_level(t.world).spawn_point[2]]
                      ELSE player
        /\ op' = "tab"
        /\ obs' = NoObs

\* The animation phase is written by update and read by the renderer alone:
\* the state keeps it at its initial value, which identifies the states that
\* differ in nothing else.
Untimed(p) == [p EXCEPT !.animation_frame = 0, !.animation_timer = 0]

\* what one update observes: the two passes of handle_collisions
Passes(p, dt, lv) ==
    Only({Only({Only({[moved |-> moved, h |-> h, v |-> v] :
                        v \in {VerticalPass(h.p, lv, p.y)}}) :
                   h \in {HorizontalPass(moved, lv, p.x)}}) :
             moved \in {Integrate(p, dt, lv)}})

Update ==
    \E dt \in DtRange :
        IF HasLevel(world)
        THEN \E t \in {Passes(player, dt, level)} :
               /\ t.moved.velocity_y <= Vel(MaxFallSpeed)
               /\ t.moved.velocity_y >= -Vel(MaxFallSpeed)
               /\ player' = Untimed(update(player, dt, level))
               /\ op' = "update"
               /\ obs' = [dt |-> dt,
                          collision_x |-> t.h.collision,
                          collision_y |-> t.v.collision,
                          landed |-> t.v.p.is_grounded,
                          collected |-> Len(player'.evidence_collected)
                                        - Len(player.evidence_collected),
                          ignored |-> FALSE]
               /\ UNCHANGED world
        ELSE /\ op' = "update"
             /\ obs' = [NoObs EXCEPT !.dt = dt]
             /\ UNCHANGED <<player, world>>

\* the frame loop (main.rs) and the key handler (playing.rs) on one level
Init == InitOn({WallLevel, TriggerLevel})

Next == MoveLeft \/ MoveRight \/ MoveUp \/ MoveDown \/ Jump \/ Update

Spec == Init /\ [][Next]_vars

\* side-scrolling levels: the keys that update_side_scrolling reads
NextSide == MoveLeft \/ MoveRight \/ Jump \/ Update

SpecWall == InitOn({WallLevel}) /\ [][NextSide]_vars
SpecOpen == InitOn({OpenLevel}) /\ [][NextSide]_vars
SpecLedge == InitOn({LedgeLevel}) /\ [][NextSide]_vars
SpecPost == InitOn({PostLevel}) /\ [][NextSide]_vars
SpecFloor == InitOn({FloorLevel}) /\ [][NextSide]_vars

SpecMixed == InitOn({MixedLevel}) /\ [][NextSide]_vars

\* a player placed beside, above or below a single solid tile
SpecSolo == InitPlaced /\ [][Update]_vars

\* the top-down level
SpecTrigger == InitOn({TriggerLevel}) /\ [][Next]_vars

\* a level with Evidence tiles above the spawn and a floor below it
NextRight == MoveRight \/ Jump \/ Update
SpecShelf == InitOn({TestLevel}) /\ [][NextRight]_vars

\* a top-down level with a solid tile
SpecCourt == InitOn({CourtLevel}) /\ [][Next]_vars

\* PlayingState::new: both levels registered, the first one current, the
\* actor on its spawn point
InitWorld ==
    /\ world = add_level(add_level(World_new, "test_level", TestLevel),
                         "topdown_level", TopDownLevel)
    /\ player = Player_new(level.spawn_point[1], level.spawn_point[2])
    /\ op = "new"
    /\ obs = NoObs

\* ------------------------------------------------------------------------
\* The Level interface called directly: get_tile, set_tile and add_evidence
\* with coordinates inside and outside the grid.

MaxCoord == 1
MaxEvidence == 1

CoordRange == 0..MaxCoord
TileType == {"Empty", "Platform", "Wall", "Evidence"}

\* a 2 x 1 and a 1 x 2 grid
GridTexts ==
    { << <<"S", "#">> >>,
      << <<"W">>, <<"S">> >> }

\* the arguments and the return value of the last call
CallObs(x, y, tile_type, result) ==
    [x |-> x, y |-> y, tile_type |-> tile_type, result |-> result]

NoCall == CallObs(0, 0, "None", "None")

InitGrid ==
    /\ world \in {add_level(World_new, "test_level", from_string(t, "SideScrolling")) :
                     t \in GridTexts}
    /\ player = Player_new(Pos(100), Pos(300))
    /\ op = "from_string"
    /\ obs = NoCall

SetTile ==
    \E x \in CoordRange, y \in CoordRange, tile_type \in TileType :
        /\ HasLevel(world)
        /\ world' = current_level_mut(world, set_tile(level, x, y, tile_type))
        /\ op' = "set_tile"
        /\ obs' = CallObs(x, y, tile_type, "None")
        /\ UNCHANGED player

AddEvidence ==
    \E x \in CoordRange, y \in CoordRange :
        /\ HasLevel(world)
        /\ Len(level.evidence_locations) < MaxEvidence
        /\ world' = current_level_mut(world, add_evidence(level, x, y))
        /\ op' = "add_evidence"
        /\ obs' = CallObs(x, y, "None", "None")
        /\ UNCHANGED player

GetTile ==
    \E x \in CoordRange, y \in CoordRange :
        /\ HasLevel(world)
        /\ op' = "get_tile"
        /\ obs' = CallObs(x, y, "None", get_tile(level, x, y))
        /\ UNCHANGED <<player, world>>

NextGrid == SetTile \/ AddEvidence \/ GetTile

SpecGrid == InitGrid /\ [][NextGrid]_vars

\* ------------------------------------------------------------------------
\* Level::from_string on every text of up to MaxRows rows of up to MaxRowLen
\* characters: rows of different lengths, empty rows, blank rows, texts
\* without a spawn marker and the empty text included.

MaxRows == 3
MaxRowLen == 2

\* the characters from_string tells apart; " " stands for every other
\* character and is white space to trim
LevelChar == {"#", "W", "E", "S", " "}

RowsUpTo(len) == UNION {[1..n -> LevelChar] : n \in 0..len}

TextsUpTo(rows, len) == UNION {[1..n -> RowsUpTo(len)] : n \in 0..rows}

LoadObs(text) == [text |-> text]

\* the text is in hand, from_string has not been called
InitLoad ==
    /\ world = World_new
    /\ player = Player_new(Pos(100), Pos(300))
    /\ op = "new"
    /\ obs \in {LoadObs(text) : text \in TextsUpTo(MaxRows, MaxRowLen)}

\* Level::from_string and World::add_level; indexing lines[0] of a text
\* without lines panics and nothing is registered
Load ==
    /\ op = "new"
    /\ IF Panics(obs.text)
       THEN /\ op' = "panic"
            /\ UNCHANGED world
       ELSE /\ op' = "from_string"
            /\ world' = add_level(world, "test_level",
                                  from_string(obs.text, "SideScrolling"))
    /\ UNCHANGED <<player, obs>>

SpecLoad == InitLoad /\ [][Load]_vars

\* ------------------------------------------------------------------------
\* The World interface called directly: add_level and switch_level with
\* names that are and are not registered.

LevelNames == {"test_level", "topdown_level", "cellar"}

\* the name passed to the last call and the bool it returned
NameObs(name, result) == [name |-> name, result |-> result]

InitRegistry ==
    /\ world = World_new
    /\ player = Player_new(Pos(100), Pos(300))
    /\ op = "new"
    /\ obs = NameObs("", FALSE)

AddLevel ==
    \E name \in LevelNames, lv \in {TestLevel, TopDownLevel} :
        /\ world' = add_level(world, name, lv)
        /\ op' = "add_level"
        /\ obs' = NameObs(name, FALSE)
        /\ UNCHANGED player

SwitchLevel ==
    \E name \in LevelNames :
        \E t \in {switch_level(world, name)} :
            /\ world' = t.world
            /\ op' = "switch_level"
            /\ obs' = NameObs(name, t.result)
            /\ UNCHANGED player

NextRegistry == AddLevel \/ SwitchLevel

SpecRegistry == InitRegistry /\ [][NextRegistry]_vars

\* the key handler with Tab; move_left mirrors move_right and is left to the
\* one-level specifications
NextWorld == MoveRight \/ MoveUp \/ MoveDown \/ Jump \/ Update \/ Tab

SpecWorld == InitWorld /\ [][NextWorld]_vars

\* main.rs polls: every pass of the event loop ends in an update
SpecWallFair == SpecWall /\ WF_vars(Update)
SpecTriggerFair == SpecTrigger /\ WF_vars(Update)

\* ------------------------------------------------------------------------
\* Properties

LowerLimit(p, lv) == TileEdge(lv.height) - p.height \div 2
UpperLimit(p) == p.height \div 2
LeftLimit(p) == p.width \div 2
RightLimit(p, lv) == TileEdge(lv.width) - p.width \div 2

\* C1: after any update on a SideScrolling level, is_grounded is true iff the
\* vertical pass of that step found a downward contact or y is exactly at
\* the lower world boundary.
GroundedIffContactOrFloor ==
    (op = "update" /\ level.perspective = "SideScrolling")
        => (player.is_grounded
                <=> (obs.landed \/ player.y = LowerLimit(player, level)))

Inside(p, lv) ==
    /\ LeftLimit(p) <= p.x /\ p.x <= RightLimit(p, lv)
    /\ UpperLimit(p) <= p.y /\ p.y <= LowerLimit(p, lv)

\* C2: when an actor inside the level is carried by its velocity past a world
\* edge in one step, after the step its position on that axis is within
\* [halfExtent, levelExtent - halfExtent] and its velocity on that axis is 0.
BoundaryClampZeroesVelocity ==
    [][(op' = "update" /\ Inside(player, level))
        => LET moved == Integrate(player, obs'.dt, level)
           IN /\ (moved.x < LeftLimit(player) \/ moved.x > RightLimit(player, level))
                    => /\ LeftLimit(player) <= player'.x
                       /\ player'.x <= RightLimit(player, level)
                       /\ player'.velocity_x = 0
              /\ (moved.y < UpperLimit(player) \/ moved.y > LowerLimit(player, level))
                    => /\ UpperLimit(player) <= player'.y
                       /\ player'.y <= LowerLimit(player, level)
                       /\ player'.velocity_y = 0]_vars

\* C3: on the grid "###","#S#","###" with the actor created at the spawn
\* point and moving_right held, x stabilizes at 2*32 - width/2 = 52 with
\* velocity_x = 0 and stays there on every later step.
RightHeld == player.moving_right /\ ~player.moving_left

WallScenarioStabilizes ==
    ([](op # "jump") /\ <>[]RightHeld)
        => <>[](player.x = Pos(2 * TILE_SIZE) - player.width \div 2
                /\ player.velocity_x = 0)

SolidTiles(lv) ==
    {c \in (0..(lv.width - 1)) \X (0..(lv.height - 1)) :
        get_tile(lv, c[1], c[2]) \in Solid}

\* C4: an actor that starts entirely on one side of a solid tile and moves
\* toward it along an axis is, after one step of any modelled speed and
\* duration, never entirely beyond the tile's far face on that axis.
NoTunneling ==
    [][op' = "update"
        => LET moved == Integrate(player, obs'.dt, level)
               was == Box(player)
               now == Box(player')
           IN \A c \in SolidTiles(level) :
                /\ (moved.velocity_x > 0 /\ was.right <= TileEdge(c[1]))
                      => now.left < TileEdge(c[1] + 1)
                /\ (moved.velocity_x < 0 /\ was.left >= TileEdge(c[1] + 1))
                      => now.right > TileEdge(c[1])
                /\ (moved.velocity_y > 0 /\ was.bottom <= TileEdge(c[2]))
                      => now.top < TileEdge(c[2] + 1)
                /\ (moved.velocity_y < 0 /\ was.top >= TileEdge(c[2] + 1))
                      => now.bottom > TileEdge(c[2])]_vars

\* the step carried the box from the near side to beyond the far face of the
\* tile at (3,3) and the actor is still on the near side
TunnelingAttempted ==
    /\ op = "update"
    /\ level = SoloLevel
    /\ ~obs.collision_x
    /\ player.velocity_x = Vel(MAX_VELOCITY)
    /\ Box(player).right <= TileEdge(3)
    /\ Box(player).left + Displace(player.velocity_x, obs.dt) >= TileEdge(4)
    /\ Box(player).top < TileEdge(4)
    /\ Box(player).bottom > TileEdge(3)

\* the Evidence tiles under the footprint of p
Covered(p, lv) ==
    LET cells == ScanOrder(Footprint(p))
    IN {cells[i] : i \in {j \in DOMAIN cells :
                            get_tile(lv, cells[j][1], cells[j][2]) = "Evidence"}}

Count(seq, e) == Cardinality({i \in DOMAIN seq : seq[i] = e})

\* C5: however many consecutive steps scan a footprint that covers the same
\* Evidence tile, the tile's identifier is collected exactly once: the scan
\* that first covers it adds one entry and every later scan adds none.
TriggerIdempotence ==
    [][op' = "update"
        => /\ \A c \in Covered(player', level) :
                Count(player'.evidence_collected, EvidenceId(c[1], c[2])) = 1
           /\ Len(player'.evidence_collected) - Len(player.evidence_collected)
                = Cardinality({c \in Covered(player', level) :
                     ~Contains(player.evidence_collected,
                               EvidenceId(c[1], c[2]))})]_vars

\* a scan over an Evidence tile that an earlier scan had collected
RescannedTrigger ==
    /\ op = "update"
    /\ Covered(player, level) # {}
    /\ obs.collected = 0
    /\ Len(player.evidence_collected) = 1

\* C6: on the TopDown grid with Evidence at (2,2), an actor that starts off
\* the tile and is driven toward it by its intent flags reaches the tile and
\* collects exactly the identifier of (2,2), once, and nothing further.
TowardTrigger ==
    /\ player.moving_right /\ player.moving_down
    /\ ~player.moving_left /\ ~player.moving_up

TopDownTriggerReached ==
    <>[]TowardTrigger
        => <>[](player.evidence_collected = <<EvidenceId(2, 2)>>)

\* C7: jump while grounded sets velocity_y to -JUMP_VELOCITY, is_jumping to
\* true and is_grounded to false; jump while not grounded changes no field.
JumpGating ==
    [][op' = "jump"
        => IF player.is_grounded
           THEN /\ player'.velocity_y = -Vel(JUMP_VELOCITY)
                /\ player'.is_jumping
                /\ ~player'.is_grounded
                /\ \A f \in DOMAIN player \ {"velocity_y", "is_jumping", "is_grounded"} :
                        player'[f] = player[f]
           ELSE player' = player]_vars

\* a jump requested in the air
JumpIgnored == op = "jump" /\ obs.ignored /\ player.is_jumping

Abs(n) == IF n < 0 THEN -n ELSE n

\* C8: in a side-scrolling step that starts grounded with neither
\* moving_left nor moving_right, |velocity_x| does not increase, velocity_x
\* does not change sign, a speed within one step of friction becomes
\* exactly 0, and 0 stays 0.
FrictionMonotone ==
    [][(/\ op' = "update"
        /\ level.perspective = "SideScrolling"
        /\ ~player.moving_left /\ ~player.moving_right
        /\ player.is_grounded)
        => /\ Abs(player'.velocity_x) <= Abs(player.velocity_x)
           /\ player'.velocity_x * player.velocity_x >= 0
           /\ Abs(player.velocity_x) <= PerStep(FRICTION, obs'.dt)
                => player'.velocity_x = 0]_vars

\* friction has slowed a placed actor from MAX_VELOCITY
SlowedByFriction ==
    /\ op = "update"
    /\ ~player.moving_left /\ ~player.moving_right
    /\ player.velocity_x = Vel(MAX_VELOCITY) - PerStep(FRICTION, obs.dt)

\* C9: after every update, in either perspective, the actor's centre is
\* within [width/2, level.width*32 - width/2] and
\* [height/2, level.height*32 - height/2].
PositionBounds == op = "update" => Inside(player, level)

\* a contact left the actor beyond the left edge and the clamp returned it
ClampedAtLeftEdge ==
    op = "update" /\ obs.collision_x /\ player.x = LeftLimit(player)

\* C10: on a side-scrolling level velocity_x stays within
\* [-MAX_VELOCITY, MAX_VELOCITY] from a new actor on, after every step.
SpeedCap ==
    level.perspective = "SideScrolling"
        => /\ -Vel(MAX_VELOCITY) <= player.velocity_x
           /\ player.velocity_x <= Vel(MAX_VELOCITY)

\* accelerating at the cap
AtSpeedCap ==
    /\ op = "update"
    /\ player.moving_right /\ ~player.moving_left
    /\ player.velocity_x = Vel(MAX_VELOCITY)

\* C11: in every state reached from Player::new by input calls, jump(),
\* update() and level switches, a grounded actor has no vertical velocity.
GroundedAtRest == player.is_grounded => player.velocity_y = 0

\* the actor has landed on the floor of the side-scrolling level after falling
LandedAfterFall ==
    /\ op = "update"
    /\ obs.collision_y
    /\ player.is_grounded
    /\ world.current_level = "test_level"

\* C12: for every Level produced by from_string, rows longer than the first
\* included, and after any sequence of add_evidence and set_tile calls, every
\* coordinate in evidence_locations is inside the grid and the tile there is
\* Evidence.
EvidenceLocationsValid ==
    HasLevel(world) =>
        \A i \in 1..Len(level.evidence_locations) :
            /\ level.evidence_locations[i][1] < level.width
            /\ level.evidence_locations[i][2] < level.height
            /\ get_tile(level, level.evidence_locations[i][1],
                        level.evidence_locations[i][2]) = "Evidence"

\* the lines from_string iterates over
LinesRead == Trim(obs.text)

\* the coordinates (column, row) at which from_string reads c
ReadAt(c) ==
    {cr \in (0..(MaxRowLen - 1)) \X (0..(MaxRows - 1)) :
        /\ cr[2] < Len(LinesRead)
        /\ cr[1] < Len(LinesRead[cr[2] + 1])
        /\ LinesRead[cr[2] + 1][cr[1] + 1] = c}

\* cr is read after every other coordinate of S (rows in order, then columns)
ReadLast(cr, S) ==
    \A other \in S :
        other[2] < cr[2] \/ (other[2] = cr[2] /\ other[1] <= cr[1])

\* C13: when from_string reads 'S' at column c, row r, spawn_point is the
\* centre of that tile, (c*32 + 16, r*32 + 16), and the tile at (c, r) is
\* Empty (with several markers, the one read last stands).
SpawnAtTileCentre ==
    op = "from_string" =>
        \A cr \in ReadAt("S") :
            /\ ReadLast(cr, ReadAt("S")) =>
                    level.spawn_point = <<Pos(cr[1] * 32 + 16), Pos(cr[2] * 32 + 16)>>
            /\ get_tile(level, cr[1], cr[2]) \in {"Empty", "None"}

\* level text with an empty row, rows of different lengths or no 'S'
InvalidLevelData(lines) ==
    \/ lines = <<>>
    \/ \E i \in 1..Len(lines) : lines[i] = <<>>
    \/ \E i, j \in 1..Len(lines) : Len(lines[i]) # Len(lines[j])
    \/ \A i \in 1..Len(lines) : \A k \in 1..Len(lines[i]) : lines[i][k] # "S"

\* C14: level text with empty rows, inconsistent row lengths or no 'S' is
\* rejected at load time: no Level exists on which a step could run.
InvalidDataRejected == InvalidLevelData(LinesRead) => ~HasLevel(world)

\* the tile the match in from_string stores for a character
TileFor(c) ==
    CASE c = "#" -> "Platform"
      [] c = "W" -> "Wall"
      [] c = "E" -> "Evidence"
      [] OTHER -> "Empty"

\* C15: a solid or evidence character that from_string reads beyond the
\* length of the first row is never dropped: the load is rejected, or the
\* grid holds its tile.
NoSilentTruncation ==
    op = "from_string" =>
        \A c \in {"#", "W", "E"} :
            \A cr \in ReadAt(c) : get_tile(level, cr[1], cr[2]) = TileFor(c)

\* rows of one length, at least one character each
Rectangular(text) ==
    /\ text # <<>>
    /\ \A i \in 1..Len(text) : Len(text[i]) = Len(text[1]) /\ text[i] # <<>>

RECURSIVE EvidenceInRow(_, _, _)
EvidenceInRow(line, x, y) ==
    IF x >= Len(line) THEN <<>>
    ELSE (IF line[x + 1] = "E" THEN << <<x, y>> >> ELSE <<>>)
         \o EvidenceInRow(line, x + 1, y)

\* the coordinates of the 'E' characters of a text in reading order
RECURSIVE EvidenceInText(_, _)
EvidenceInText(text, y) ==
    IF y >= Len(text) THEN <<>>
    ELSE EvidenceInRow(text[y + 1], 0, y) \o EvidenceInText(text, y + 1)

\* C16: for rectangular rows the loaded Level has width = length of the
\* first row and height = number of rows, every tile is the one its character
\* maps to, and the 'E' coordinates are appended to evidence_locations; rows
\* that begin or end with blank characters are no exception.
GridMatchesText ==
    (op \in {"from_string", "panic"} /\ Rectangular(obs.text)) =>
        /\ HasLevel(world)
        /\ level.width = Len(obs.text[1])
        /\ level.height = Len(obs.text)
        /\ \A y \in 0..(Len(obs.text) - 1) :
              \A x \in 0..(Len(obs.text[1]) - 1) :
                 get_tile(level, x, y) = TileFor(obs.text[y + 1][x + 1])
        /\ level.evidence_locations = EvidenceInText(obs.text, 0)

InGrid(lv, x, y) == x < lv.width /\ y < lv.height

\* (x, y) is outside the grid although y * width + x is an index of tiles
WrapsAround(lv, x, y) ==
    ~InGrid(lv, x, y) /\ y * lv.width + x < lv.width * lv.height

\* the tile kind the call just made stored at (x, y), "None" if it stored none
StoredAt(x, y) ==
    IF obs'.x = x /\ obs'.y = y /\ op' = "set_tile" THEN obs'.tile_type
    ELSE IF obs'.x = x /\ obs'.y = y /\ op' = "add_evidence" THEN "Evidence"
    ELSE "None"

\* C17: get_tile(x, y) returns None whenever x >= width or y >= height; for
\* an in-range (x, y) it returns the tile kind last stored at (x, y): a call
\* that stores at (x, y) changes what it returns to the stored kind, and no
\* other call changes it.
LookupReturnsLastStored ==
    [][/\ (op' = "get_tile" /\ ~InGrid(level, obs'.x, obs'.y))
             => obs'.result = "None"
       /\ (op' = "get_tile" /\ InGrid(level, obs'.x, obs'.y))
             => obs'.result = get_tile(level', obs'.x, obs'.y)
       /\ \A x \in 0..(level.width - 1), y \in 0..(level.height - 1) :
             get_tile(level', x, y) =
                 IF StoredAt(x, y) # "None" THEN StoredAt(x, y)
                 ELSE get_tile(level, x, y)]_vars

\* a lookup outside the grid at a coordinate whose flat index is another
\* cell's
LookupWrapsAround ==
    op = "get_tile" /\ WrapsAround(level, obs.x, obs.y) /\ obs.result = "None"

\* C18: set_tile(x, y, kind) with x >= width or y >= height leaves the tiles,
\* the dimensions, spawn_point and evidence_locations unchanged; an in-range
\* set_tile changes only the tile at (x, y).
SetTileFrame ==
    [][op' = "set_tile" =>
          /\ level'.width = level.width
          /\ level'.height = level.height
          /\ level'.spawn_point = level.spawn_point
          /\ level'.evidence_locations = level.evidence_locations
          /\ level'.perspective = level.perspective
          /\ Len(level'.tiles) = Len(level.tiles)
          /\ \A x \in 0..(level.width - 1), y \in 0..(level.height - 1) :
                (~InGrid(level, obs'.x, obs'.y) \/ x # obs'.x \/ y # obs'.y)
                    => get_tile(level', x, y) = get_tile(level, x, y)]_vars

\* a store outside the grid at a coordinate whose flat index is another
\* cell's, with a kind that cell does not hold
StoreWrapsAround ==
    /\ op = "set_tile"
    /\ WrapsAround(level, obs.x, obs.y)
    /\ level.tiles[obs.y * level.width + obs.x + 1] # obs.tile_type

\* C19: immediately after every Tab-triggered switch, current_level names
\* the other of the two registered levels and the actor's (x, y) is that
\* level's spawn_point.
SpawnResetOnSwitch ==
    [][op' = "tab" =>
          /\ world'.current_level \in {"test_level", "topdown_level"}
          /\ world'.current_level # world.current_level
          /\ world'.levels = world.levels
          /\ player'.x = world.levels[world'.current_level].spawn_point[1]
          /\ player'.y = world.levels[world'.current_level].spawn_point[2]]_vars

\* back on the first level by a second switch, after a step in which the
\* actor landed, off the spawn point
SwitchedBack ==
    /\ op = "tab"
    /\ world.current_level = "test_level"
    /\ player.evidence_collected # <<>>
    /\ player.is_grounded
    /\ player.x = level.spawn_point[1]
    /\ player.y = level.spawn_point[2]

\* C20: a level switch keeps evidence_collected as it is, and a step whose
\* footprint covers an Evidence tile whose identifier was collected before,
\* in whichever level, adds no entry for it: when every covered identifier
\* was collected before, the step reports no collection.
CollectedAcrossLevels ==
    [][/\ op' = "tab" => player'.evidence_collected = player.evidence_collected
       /\ op' = "update" =>
             /\ SubSeq(player'.evidence_collected, 1, Len(player.evidence_collected))
                    = player.evidence_collected
             /\ \A c \in Covered(player', level') :
                    Contains(player.evidence_collected, EvidenceId(c[1], c[2]))
                        => Count(player'.evidence_collected, EvidenceId(c[1], c[2]))
                             = Count(player.evidence_collected, EvidenceId(c[1], c[2]))
             /\ (\A c \in Covered(player', level') :
                    Contains(player.evidence_collected, EvidenceId(c[1], c[2])))
                        => obs'.collected = 0]_vars

\* a step on the second level over Evidence at (1,0), whose identifier was
\* collected on the first level: there (0,0) is scanned just before (1,0),
\* and the second level has no Evidence at (0,0)
OverlapAfterSwitch ==
    /\ op = "update"
    /\ world.current_level = "topdown_level"
    /\ <<1, 0>> \in Covered(player, level)
    /\ player.evidence_collected = <<EvidenceId(0, 0), EvidenceId(1, 0)>>
    /\ obs.collected = 0

\* C21: switch_level(name) returns true and makes name the current level
\* when name is registered; otherwise it returns false and leaves
\* current_level and the level map unchanged.
SwitchReportsOutcome ==
    [][op' = "switch_level" =>
          IF obs'.name \in DOMAIN world.levels
          THEN /\ obs'.result
               /\ world'.current_level = obs'.name
               /\ world'.levels = world.levels
          ELSE /\ ~obs'.result
               /\ world' = world]_vars

\* a switch to an unregistered name was refused while another level is
\* current
SwitchRefused ==
    /\ op = "switch_level"
    /\ ~obs.result
    /\ obs.name \notin DOMAIN world.levels
    /\ HasLevel(world)

\* the level with every tile of one kind replaced by another kind
ReplaceTile(lv, from, to) ==
    [lv EXCEPT !.tiles = [i \in DOMAIN lv.tiles |->
                             IF lv.tiles[i] = from THEN to ELSE lv.tiles[i]]]

\* C22: a step on the grid and a step on the same grid with every Platform
\* replaced by Wall, or every Wall by Platform, yield identical actor state.
PlatformWallInterchangeable ==
    [][op' = "update" =>
          /\ player' = Untimed(update(player, obs'.dt,
                                      ReplaceTile(level, "Platform", "Wall")))
          /\ player' = Untimed(update(player, obs'.dt,
                                      ReplaceTile(level, "Wall", "Platform")))]_vars

\* a step stopped on both axes on a grid that holds both solid kinds
StoppedByPlatform ==
    /\ op = "update"
    /\ obs.collision_x /\ obs.collision_y
    /\ ReplaceTile(level, "Platform", "Wall") # level
    /\ ReplaceTile(level, "Wall", "Platform") # level

\* exactly one horizontal and exactly one vertical intent flag
Diagonal(p) ==
    /\ p.moving_left # p.moving_right
    /\ p.moving_up # p.moving_down

\* C23: in a top-down step with exactly one horizontal and one vertical
\* intent flag, the velocity (dx, dy) used for integration has magnitude
\* MAX_VELOCITY to within one unit of resolution per component, |dx| = |dy|,
\* and the signs of the pressed directions.
DiagonalSpeedCap ==
    [][(op' = "update" /\ level.perspective = "TopDown" /\ Diagonal(player)) =>
          \A d \in {TopDownVelocity(player)} :
              /\ Abs(d.dx) = Abs(d.dy)
              /\ d.dx * d.dx + d.dy * d.dy <= Vel(MAX_VELOCITY) * Vel(MAX_VELOCITY)
              /\ (Abs(d.dx) + 1) * (Abs(d.dx) + 1) + (Abs(d.dy) + 1) * (Abs(d.dy) + 1)
                    > Vel(MAX_VELOCITY) * Vel(MAX_VELOCITY)
              /\ (d.dx < 0) = player.moving_left
              /\ (d.dx > 0) = player.moving_right
              /\ (d.dy < 0) = player.moving_up
              /\ (d.dy > 0) = player.moving_down]_vars

\* a top-down step with left and down held
SteppedDiagonally ==
    /\ op = "update"
    /\ level.perspective = "TopDown"
    /\ player.moving_left /\ ~player.moving_right
    /\ player.moving_down /\ ~player.moving_up

\* the most tiles a box of PLAYER_WIDTH x PLAYER_HEIGHT can span
FootprintCap ==
    (PLAYER_WIDTH \div TILE_SIZE + 2) * (PLAYER_HEIGHT \div TILE_SIZE + 2)

\* a box edge as the cast to usize sees it: negative values become 0
Saturated(v) == IF v < 0 THEN 0 ELSE v

\* the loops around p visit no more tiles than a box can span, and every
\* tile they visit is one the box of p spans (row or column 0 for a box edge
\* at a negative coordinate)
ScanWithinBox(p) ==
    \A cells \in {ScanOrder(Footprint(p))} :
        /\ Len(cells) <= FootprintCap
        /\ \A i \in 1..Len(cells) :
              /\ TileEdge(cells[i][1]) <= Saturated(Box(p).right)
              /\ TileEdge(cells[i][1] + 1) > Box(p).left
              /\ TileEdge(cells[i][2]) <= Saturated(Box(p).bottom)
              /\ TileEdge(cells[i][2] + 1) > Box(p).top

\* C24: on a grid with width > 0 and height > 0 every step completes with an
\* actor state, and each of its scans (the horizontal pass, the vertical
\* pass, the evidence scan) visits a bounded footprint: at most the tiles
\* spanned by the actor's 24 x 48 box.
StepCompletes ==
    [][op' = "update" =>
          /\ DOMAIN player' = DOMAIN player
          /\ \A t \in {Passes(player, obs'.dt, level)} :
                /\ ScanWithinBox(t.moved)
                /\ ScanWithinBox(t.h.p)
          /\ ScanWithinBox(player')]_vars

\* a step whose vertical pass scanned around a box left partly outside the
\* grid by the horizontal pass
ScannedAtGridEdge ==
    /\ op = "update"
    /\ obs.collision_x /\ obs.collision_y
    /\ player.x = LeftLimit(player)
    /\ level.width > 0 /\ level.height > 0

\* the directional penetration tests of the two loops, for the actor p as it
\* enters the pass, and the positions they assign
PenetratesX(p, lv, c) ==
    /\ get_tile(lv, c[1], c[2]) \in Solid
    /\ \/ p.velocity_x > 0 /\ Box(p).right > TileEdge(c[1])
       \/ p.velocity_x < 0 /\ Box(p).left < TileEdge(c[1] + 1)

CorrectionX(p, c) ==
    IF p.velocity_x > 0 THEN TileEdge(c[1]) - p.width \div 2
    ELSE TileEdge(c[1] + 1) + p.width \div 2

PenetratesY(p, lv, c) ==
    /\ get_tile(lv, c[1], c[2]) \in Solid
    /\ \/ p.velocity_y > 0 /\ Box(p).bottom > TileEdge(c[2])
       \/ p.velocity_y < 0 /\ Box(p).top < TileEdge(c[2] + 1)

CorrectionY(p, c) ==
    IF p.velocity_y > 0 THEN TileEdge(c[2]) - p.height \div 2
    ELSE TileEdge(c[2] + 1) + p.height \div 2

\* the places in scan order of the tiles around p that pass the test
HitsX(p, lv) ==
    {i \in DOMAIN ScanOrder(Footprint(p)) : PenetratesX(p, lv, ScanOrder(Footprint(p))[i])}

HitsY(p, lv) ==
    {i \in DOMAIN ScanOrder(Footprint(p)) : PenetratesY(p, lv, ScanOrder(Footprint(p))[i])}

First(S) == CHOOSE i \in S : \A j \in S : i <= j
Last(S) == CHOOSE i \in S : \A j \in S : i >= j

JumpingClearedOnContact ==
    (op = "update" /\ obs.collision_y) => ~player.is_jumping

\* no tile around p is solid
FreeOfSolid(p, lv) ==
    \A cells \in {ScanOrder(Footprint(p))} :
        \A i \in 1..Len(cells) : get_tile(lv, cells[i][1], cells[i][2]) \notin Solid

\* C27 as the code has it: a pass without contact leaves the coordinate of
\* its axis at the value from before the step, and a step without contact on
\* either axis ends at the position from before the step clamped to the
\* level boundaries.
NoContactRevertsThenClamps ==
    [][op' = "update" =>
          \A t \in {Passes(player, obs'.dt, level)} :
              /\ ~t.h.collision => t.h.p.x = player.x
              /\ ~t.v.collision => t.v.p.y = player.y
              /\ (~t.h.collision /\ ~t.v.collision) =>
                    /\ player'.x = ClampX(player, level).x
                    /\ player'.y = ClampY(player, level).y]_vars

\* C27 as stated: a pass without contact leaves the coordinate of its axis at
\* the value from before the step, and an actor whose proposed footprint
\* holds no solid tile ends the step at the position from before the step.
NoContactReverts ==
    [][op' = "update" =>
          \A t \in {Passes(player, obs'.dt, level)} :
              /\ ~t.h.collision => t.h.p.x = player.x
              /\ ~t.v.collision => t.v.p.y = player.y
              /\ FreeOfSolid(t.moved, level) =>
                    /\ player'.x = player.x
                    /\ player'.y = player.y]_vars

\* a top-down step with intent and no contact that ended where the boundary
\* clamp put the actor
RevertedAndClamped ==
    /\ op = "update"
    /\ level.perspective = "TopDown"
    /\ ~obs.collision_x /\ ~obs.collision_y
    /\ player.moving_right /\ player.moving_down
    /\ player.x = LeftLimit(player)
    /\ player.y = UpperLimit(player)

\* the actor with no velocity stored
AtRest(p) == [p EXCEPT !.velocity_x = 0, !.velocity_y = 0]

\* C28: a top-down step yields the same position for two actors that agree
\* on position, extents and intent flags and differ in the stored velocity:
\* the actor of the step and the same actor with no velocity stored.
TopDownIgnoresVelocity ==
    [][(op' = "update" /\ level.perspective = "TopDown") =>
          \A twin \in {update(AtRest(player), obs'.dt, level)} :
              /\ player'.x = twin.x
              /\ player'.y = twin.y]_vars

\* C29: a top-down step leaves facing_right true when moving_right is set,
\* false when only moving_left is set, and unchanged when neither is set,
\* whatever moving_up and moving_down are.
TopDownFacing ==
    [][(op' = "update" /\ level.perspective = "TopDown") =>
          /\ player.moving_right => player'.facing_right
          /\ (player.moving_left /\ ~player.moving_right) =>
                 ~player'.facing_right
          /\ (~player.moving_left /\ ~player.moving_right) =>
                 player'.facing_right = player.facing_right]_vars

\* a step with only moving_up set has left the actor facing left
FacedLeftMovingUp ==
    /\ op = "update"
    /\ level.perspective = "TopDown"
    /\ player.moving_up
    /\ ~player.moving_down /\ ~player.moving_left /\ ~player.moving_right
    /\ ~player.facing_right

\* C30: a step on the grid and a step on the same grid with every Evidence
\* tile replaced by Empty yield the same position, velocity, is_grounded and
\* is_jumping.
EvidenceNotSolid ==
    [][op' = "update" =>
          \A bare \in {update(player, obs'.dt,
                              ReplaceTile(level, "Evidence", "Empty"))} :
              /\ player'.x = bare.x
              /\ player'.y = bare.y
              /\ player'.velocity_x = bare.velocity_x
              /\ player'.velocity_y = bare.velocity_y
              /\ player'.is_grounded = bare.is_grounded
              /\ player'.is_jumping = bare.is_jumping]_vars

\* a step has landed the actor on the floor with an Evidence tile under its
\* footprint
LandedUnderEvidence ==
    /\ op = "update"
    /\ obs.collision_y
    /\ Covered(player, level) # {}

\* the bounding box of p overlaps the interior of the tile at (x, y)
OverlapsTile(p, x, y) ==
    /\ Box(p).left < TileEdge(x + 1) /\ Box(p).right > TileEdge(x)
    /\ Box(p).top < TileEdge(y + 1) /\ Box(p).bottom > TileEdge(y)

\* the solid tiles of the grid whose interior the bounding box of p overlaps
Overlapped(p, lv) ==
    {c \in (0..(lv.width - 1)) \X (0..(lv.height - 1)) :
        get_tile(lv, c[1], c[2]) \in Solid /\ OverlapsTile(p, c[1], c[2])}

\* C31: an actor whose bounding box overlaps the interior of no Platform or
\* Wall tile overlaps none after an input change, a jump or a step.
NoOverlapWithSolid ==
    [][Overlapped(player, level) = {} => Overlapped(player', level') = {}]_vars

\* the bottom edge of p is on the top face of a solid tile under its box
OnTopFace(p, lv) ==
    \E c \in (0..(lv.width - 1)) \X (0..(lv.height - 1)) :
        /\ get_tile(lv, c[1], c[2]) \in Solid
        /\ Box(p).bottom = TileEdge(c[2])
        /\ Box(p).left < TileEdge(c[1] + 1) /\ Box(p).right > TileEdge(c[1])

\* landed on a solid tile, no key held
Resting(p, lv) ==
    /\ p.is_grounded
    /\ p.velocity_y = 0
    /\ ~p.moving_left /\ ~p.moving_right
    /\ OnTopFace(p, lv)

\* C32: a side-scrolling step of an actor that rests on top of a solid tile
\* and receives no input leaves is_grounded true.
RestingStaysGrounded ==
    [][(op' = "update" /\ level.perspective = "SideScrolling"
          /\ Resting(player, level))
        => player'.is_grounded]_vars

\* x is within the world bounds
InsideX(p, lv) == LeftLimit(p) <= p.x /\ p.x <= RightLimit(p, lv)

\* C33: a side-scrolling step that starts inside the world bounds with
\* moving_right alone set and velocity_x >= 0 does not decrease x, and one
\* with moving_left alone set and velocity_x <= 0 does not increase x.
RightNeverMovesLeft ==
    [][(op' = "update" /\ level.perspective = "SideScrolling"
          /\ InsideX(player, level))
        => /\ (player.moving_right /\ ~player.moving_left
                 /\ player.velocity_x >= 0) => player'.x >= player.x
           /\ (player.moving_left /\ ~player.moving_right
                 /\ player.velocity_x <= 0) => player'.x <= player.x]_vars

\* ------------------------------------------------------------------------
\* Free fall onto a solid floor, stepped with one fixed dt

MaxFallDt == 5      \* the fixed step lasts 1..MaxFallDt ticks of 1/DtDen second

\* a shaft with two free rows under the spawn row and a solid bottom row
ShaftText ==
    << <<".", " ", " ">>,
       <<" ", "S", " ">>,
       <<" ", " ", " ">>,
       <<"#", "#", "#">> >>

ShaftLevel == from_string(ShaftText, "SideScrolling")

\* heights of the actor's centre between the upper limit and the floor
StartHeights == {24 + 8 * k : k \in 0..6}
StartSpeeds == {-JUMP_VELOCITY, 0, 250}

\* f32 addition absorbs GRAVITY * dt once velocity_y is large, so the stored
\* velocity stops growing; the model places that fixed point at a speed whose
\* displacement in one tick already exceeds the height of the shaft plus the
\* actor, beyond which every proposed box lies below the grid
AbsorbedSpeed == Vel(4000)

Absorb(p) ==
    [p EXCEPT !.velocity_y = IF @ > AbsorbedSpeed THEN AbsorbedSpeed ELSE @]

\* an actor in the air above the floor, no key held; the timer's dt is fixed
InitFall ==
    /\ world = add_level(World_new, "test_level", ShaftLevel)
    /\ \E y \in StartHeights, vy \in StartSpeeds :
          player = [Player_new(level.spawn_point[1], Pos(y)) EXCEPT
                       !.velocity_y = Vel(vy),
                       !.is_grounded = FALSE,
                       !.is_jumping = (vy < 0)]
    /\ op = "new"
    /\ \E dt \in 1..MaxFallDt : obs = [NoObs EXCEPT !.dt = dt]

\* one pass of the frame loop with the dt of every pass before it
Fall ==
    \E t \in {Passes(player, obs.dt, level)} :
        /\ player' = Untimed(Absorb(update(player, obs.dt, level)))
        /\ op' = "update"
        /\ obs' = [dt |-> obs.dt,
                   collision_x |-> t.h.collision,
                   collision_y |-> t.v.collision,
                   landed |-> t.v.p.is_grounded,
                   collected |-> 0,
                   ignored |-> FALSE]
        /\ UNCHANGED world

\* main.rs polls: every pass of the event loop ends in an update
SpecFall == InitFall /\ [][Fall]_vars /\ WF_vars(Fall)

\* C34: in a side-scrolling level whose bottom row is solid, an actor that is
\* not grounded, receives no input and is stepped with a fixed dt eventually
\* is grounded with velocity_y 0.
AirborneLands ==
    [](~player.is_grounded => <>(player.is_grounded /\ player.velocity_y = 0))

\* C35: in every state reached from Player::new by input calls, jump(),
\* update() and level switches, is_grounded and is_jumping are not both true.
GroundedExcludesJumping == ~(player.is_grounded /\ player.is_jumping)

\* a step has left the actor in a jump that began on the other level
JumpingAfterSwitch ==
    /\ op = "update"
    /\ player.is_jumping
    /\ ~player.is_grounded
    /\ world.current_level = "topdown_level"

NoDuplicates(seq) == \A i, j \in DOMAIN seq : seq[i] = seq[j] => i = j

Ids(seq) == {seq[i] : i \in DOMAIN seq}

\* C36: through steps, inputs and level switches evidence_collected holds no
\* identifier twice and loses none, and an identifier is added only by a
\* step, for an Evidence tile of the active grid under the footprint the
\* actor has after the step's collision resolution.
CollectedSetMonotone ==
    [][/\ NoDuplicates(player'.evidence_collected)
       /\ Ids(player.evidence_collected) \subseteq Ids(player'.evidence_collected)
       /\ \A id \in Ids(player'.evidence_collected) \ Ids(player.evidence_collected) :
             /\ op' = "update"
             /\ \E c \in Covered(player', level') : id = EvidenceId(c[1], c[2])]_vars

\* a step on the first level has added one identifier and skipped the one
\* already collected on the other level
AddedOneSkippedOne ==
    /\ op = "update"
    /\ world.current_level = "test_level"
    /\ obs.collected = 1
    /\ Len(player.evidence_collected) = 2
    /\ Cardinality(Covered(player, level)) = 2

====
